---- MODULE Spec2Model ----
(***************************************************************************)
(* A model of the webhook ingestion and query service: the Flask routes of *)
(* app/routes.py (health_check, webhook_receiver, get_events), the         *)
(* normalizers and the validator of app/utils.py, and the module-level     *)
(* MongoDB handles of app/extensions.py.                                   *)
(*                                                                         *)
(* A Python value is a pair <<type, value>>: j[1] is the name of its type  *)
(* and j[2] the value.  A dict is a function from its keys; an absent key  *)
(* is a key that is not in the function's domain, which is not the same as *)
(* a key bound to None.  A call that may raise returns [ok, val, exc, msg].*)
(***************************************************************************)
EXTENDS Integers, Sequences, FiniteSets, TLC

VARIABLES
    mongo_client,        \* extensions._mongo_client: "None" or "client"
    database,            \* extensions._database: "None" or "db"
    events_collection,   \* extensions._events_collection: "None" or "coll"
    store,               \* the documents of the events collection, in insertion order
    req,                 \* the request the last handler served
    resp,                \* the response it returned
    tr,                  \* what the handler did while serving it
    inflight,            \* per worker thread: the request it is serving
    ledger               \* the 201 responses given, each by the place of its document

vars == <<mongo_client, database, events_collection, store, req, resp, tr,
          inflight, ledger>>

-----------------------------------------------------------------------------
(* Bounds of the model. *)

\* The most documents the store holds in the model.
MaxStore == 2

\* The worker threads that serve ingestion requests at the same time.
NumWorkers == 2

-----------------------------------------------------------------------------
(* Python values. *)

None == <<"NoneType", "None">>
Str(s) == <<"str", s>>
PyInt(n) == <<"int", n>>
Bool(b) == <<"bool", b>>
Dict(f) == <<"dict", f>>
List(s) == <<"list", s>>
ObjectId(n) == <<"ObjectId", n>>

NoKeys == [key \in {} |-> None]
EmptyDict == Dict(NoKeys)

IsDict(j) == j[1] = "dict"
IsStr(j) == j[1] = "str"

\* Python truthiness (bool(x)).
Truthy(j) ==
    CASE j[1] = "NoneType" -> FALSE
      [] j[1] = "str" -> j[2] # ""
      [] j[1] = "int" -> j[2] # 0
      [] j[1] = "bool" -> j[2]
      [] j[1] = "dict" -> DOMAIN j[2] # {}
      [] j[1] = "list" -> Len(j[2]) > 0
      [] OTHER -> TRUE

\* dict.get(key, default) on a value known to be a dict.
Get(d, key, default) == IF key \in DOMAIN d[2] THEN d[2][key] ELSE default

\* str(x) for the values a pull-request number takes.
PyStr(j) ==
    CASE j[1] = "str" -> j[2]
      [] j[1] = "int" -> ToString(j[2])
      [] j[1] = "NoneType" -> "None"
      [] j[1] = "bool" -> IF j[2] THEN "True" ELSE "False"
      [] OTHER -> "<object>"

\* The results of a call that may raise.
Ok(x) == [ok |-> TRUE, val |-> x, exc |-> "", msg |-> ""]
Raise(cls, text) == [ok |-> FALSE, val |-> None, exc |-> cls, msg |-> text]

\* The text of the AttributeError of x.attr on a value without that attribute.
AttributeError(j, attr) ==
    "'" \o j[1] \o "' object has no attribute '" \o attr \o "'"

-----------------------------------------------------------------------------
(* utils.format_timestamp *)

\* timestamp_str.endswith('Z'), on the strings of the model.
EndsWithZ(s) == s \in {"2024-01-15T10:00:00Z", "2024-01-16T10:00:00Z"}

\* timestamp_str[:-1] + '+00:00', on the strings that end with Z.
ZuluToOffset(s) ==
    CASE s = "2024-01-15T10:00:00Z" -> "2024-01-15T10:00:00+00:00"
      [] s = "2024-01-16T10:00:00Z" -> "2024-01-16T10:00:00+00:00"
      [] OTHER -> s

\* datetime.fromisoformat(s).astimezone(timezone.utc): the UTC wall time of
\* an ISO-8601 string with an offset; any other string raises ValueError.
FromIsoFormatUtc(s) ==
    CASE s = "2024-01-15T10:00:00+00:00" -> Ok("2024-01-15 10:00")
      [] s = "2024-01-15T15:30:00+05:30" -> Ok("2024-01-15 10:00")
      [] s = "2024-01-16T10:00:00+00:00" -> Ok("2024-01-16 10:00")
      [] OTHER -> Raise("ValueError", "Invalid isoformat string")

\* dt.strftime("%d %B %Y - %I:%M %p UTC")
StrfTime(dt) ==
    CASE dt = "2024-01-15 10:00" -> "15 January 2024 - 10:00 AM UTC"
      [] dt = "2024-01-16 10:00" -> "16 January 2024 - 10:00 AM UTC"
      [] dt = "2026-01-30 21:25" -> "30 January 2026 - 09:25 PM UTC"
      [] dt = "2026-01-30 21:26" -> "30 January 2026 - 09:26 PM UTC"
      [] OTHER -> "?"

\* The instants datetime.now(timezone.utc) returns in the model.
NowInstants == {"2026-01-30 21:25"}

\* The try block of format_timestamp(timestamp_str), with the instant
\* datetime.now() returns: the formatted string, or the exception raised.
TryFormatTimestamp(timestamp_str, now) ==
    IF Truthy(timestamp_str)
    THEN IF ~IsStr(timestamp_str)
         THEN Raise("AttributeError", AttributeError(timestamp_str, "endswith"))
         ELSE LET s == IF EndsWithZ(timestamp_str[2])
                       THEN ZuluToOffset(timestamp_str[2])
                       ELSE timestamp_str[2]
                  dt == FromIsoFormatUtc(s)
              IN IF dt.ok THEN Ok(Str(StrfTime(dt.val))) ELSE dt
    ELSE Ok(Str(StrfTime(now)))

\* A format_timestamp without its except clause.
format_timestamp_NoCatch(timestamp_str, now) ==
    TryFormatTimestamp(timestamp_str, now)

\* format_timestamp(timestamp_str): any exception of the try block is caught
\* and the current instant is formatted.
format_timestamp(timestamp_str, now) ==
    LET r == TryFormatTimestamp(timestamp_str, now) IN
    IF r.ok THEN r ELSE Ok(Str(StrfTime(now)))

-----------------------------------------------------------------------------
(* utils.parse_push_event *)

\* ref.startswith('refs/heads/'), on the strings of the model.
StartsWithRefsHeads(s) == s \in {"refs/heads/main", "refs/heads/dev"}

\* ref.replace('refs/heads/', '')
ReplaceRefsHeads(s) ==
    CASE s = "refs/heads/main" -> "main"
      [] s = "refs/heads/dev" -> "dev"
      [] OTHER -> s

\* The body of parse_push_event's try block: the record, or the first
\* exception raised while extracting the fields.
PushFields(payload, now) ==
    IF ~IsDict(payload) THEN Raise("AttributeError", AttributeError(payload, "get"))
    ELSE LET head_commit == Get(payload, "head_commit", EmptyDict) IN
    IF ~IsDict(head_commit)
    THEN Raise("AttributeError", AttributeError(head_commit, "get"))
    ELSE LET request_id == Get(head_commit, "id", Get(payload, "after", Str("unknown")))
             pusher == Get(payload, "pusher", EmptyDict)
         IN
    IF ~IsDict(pusher) THEN Raise("AttributeError", AttributeError(pusher, "get"))
    ELSE LET author == Get(pusher, "name", Str("unknown"))
             ref == Get(payload, "ref", Str(""))
         IN
    IF ~IsStr(ref) THEN Raise("AttributeError", AttributeError(ref, "startswith"))
    ELSE LET to_branch == IF StartsWithRefsHeads(ref[2])
                          THEN Str(ReplaceRefsHeads(ref[2]))
                          ELSE ref
             from_branch == to_branch
             timestamp_str == Get(head_commit, "timestamp", None)
             timestamp == format_timestamp(timestamp_str, now)
         IN
    IF ~timestamp.ok THEN Raise(timestamp.exc, timestamp.msg)
    ELSE Ok([request_id |-> request_id,
             author |-> author,
             action |-> Str("PUSH"),
             from_branch |-> from_branch,
             to_branch |-> to_branch,
             timestamp |-> timestamp.val])

\* parse_push_event(payload): any exception becomes a ValueError.
parse_push_event(payload, now) ==
    LET r == PushFields(payload, now) IN
    IF r.ok THEN r
    ELSE Raise("ValueError", "Invalid push event payload: " \o r.msg)

-----------------------------------------------------------------------------
(* utils.parse_pull_request_event *)

\* A timestamp source that takes updated_at or created_at for a merge too.
PullRequestTimestampSource_Updated(pull_request, is_merged) ==
    LET updated_at == Get(pull_request, "updated_at", None) IN
    IF Truthy(updated_at) THEN updated_at
    ELSE Get(pull_request, "created_at", None)

\* The timestamp a pull-request record is formatted from: merged_at for a
\* merge, else updated_at or, when that is falsy, created_at.
PullRequestTimestampSource(pull_request, is_merged) ==
    IF Truthy(is_merged)
    THEN Get(pull_request, "merged_at", None)
    ELSE LET updated_at == Get(pull_request, "updated_at", None) IN
         IF Truthy(updated_at) THEN updated_at
         ELSE Get(pull_request, "created_at", None)

\* The action tag of a pull-request record.
PullRequestAction(is_merged) ==
    IF Truthy(is_merged) THEN "MERGE" ELSE "PULL_REQUEST"

\* The body of parse_pull_request_event's try block.
PullRequestFields(payload, now) ==
    IF ~IsDict(payload) THEN Raise("AttributeError", AttributeError(payload, "get"))
    ELSE LET pull_request == Get(payload, "pull_request", EmptyDict) IN
    IF ~IsDict(pull_request)
    THEN Raise("AttributeError", AttributeError(pull_request, "get"))
    ELSE LET request_id ==
                 Str(PyStr(Get(payload, "number",
                               Get(pull_request, "number", Str("unknown")))))
             user == Get(pull_request, "user", EmptyDict)
         IN
    IF ~IsDict(user) THEN Raise("AttributeError", AttributeError(user, "get"))
    ELSE LET author == Get(user, "login", Str("unknown"))
             head == Get(pull_request, "head", EmptyDict)
             base == Get(pull_request, "base", EmptyDict)
         IN
    IF ~IsDict(head) THEN Raise("AttributeError", AttributeError(head, "get"))
    ELSE IF ~IsDict(base) THEN Raise("AttributeError", AttributeError(base, "get"))
    ELSE LET from_branch == Get(head, "ref", Str("unknown"))
             to_branch == Get(base, "ref", Str("unknown"))
             is_merged == Get(pull_request, "merged", Bool(FALSE))
             action == PullRequestAction(is_merged)
             timestamp_str == PullRequestTimestampSource(pull_request, is_merged)
             timestamp == format_timestamp(timestamp_str, now)
         IN
    IF ~timestamp.ok THEN Raise(timestamp.exc, timestamp.msg)
    ELSE Ok([request_id |-> request_id,
             author |-> author,
             action |-> Str(action),
             from_branch |-> from_branch,
             to_branch |-> to_branch,
             timestamp |-> timestamp.val])

\* parse_pull_request_event(payload): any exception becomes a ValueError.
parse_pull_request_event(payload, now) ==
    LET r == PullRequestFields(payload, now) IN
    IF r.ok THEN r
    ELSE Raise("ValueError", "Invalid pull_request event payload: " \o r.msg)

-----------------------------------------------------------------------------
(* utils.validate_event_data *)

required_fields ==
    <<"request_id", "author", "action", "from_branch", "to_branch", "timestamp">>

valid_actions == {"PUSH", "PULL_REQUEST", "MERGE"}

\* field not in event_data or event_data[field] is None
FieldMissing(event_data, field) ==
    field \notin DOMAIN event_data \/ event_data[field] = None

\* A validate_event_data that takes a field bound to None as present.
validate_event_data_NoneAccepted(event_data) ==
    LET missing == {i \in 1..Len(required_fields) :
                       required_fields[i] \notin DOMAIN event_data}
    IN IF missing # {}
       THEN Raise("ValueError", "Missing required field")
       ELSE IF ~(IsStr(event_data["action"]) /\ event_data["action"][2] \in valid_actions)
       THEN Raise("ValueError", "Invalid action")
       ELSE Ok(Bool(TRUE))

\* validate_event_data(event_data): True, or the ValueError of the first
\* missing field, or that of an action outside valid_actions.
validate_event_data(event_data) ==
    LET missing == {i \in 1..Len(required_fields) :
                       FieldMissing(event_data, required_fields[i])}
    IN IF missing # {}
       THEN LET first == CHOOSE i \in missing : \A j \in missing : i <= j
            IN Raise("ValueError", "Missing required field: " \o required_fields[first])
       ELSE IF ~(IsStr(event_data["action"]) /\ event_data["action"][2] \in valid_actions)
       THEN Raise("ValueError",
                  "Invalid action: " \o PyStr(event_data["action"]) \o
                  ". Must be one of ['PUSH', 'PULL_REQUEST', 'MERGE']")
       ELSE Ok(Bool(TRUE))

-----------------------------------------------------------------------------
(* extensions: the module-level handles and the store behind them. *)

\* get_events_collection(): the handle, or RuntimeError before init_db set it.
get_events_collection(coll) ==
    IF coll = "None"
    THEN Raise("RuntimeError", "Database not initialized. Call init_db first.")
    ELSE Ok(coll)

\* get_db(): the database, or RuntimeError before init_db set it.
get_db(db) ==
    IF db = "None"
    THEN Raise("RuntimeError", "Database not initialized. Call init_db first.")
    ELSE Ok(db)

\* What a call of the driver (insert_one, find, find_one) does: it succeeds,
\* or raises an error of the driver with its internal text.  An error raised
\* while a document is encoded may be a UnicodeEncodeError, which is a
\* ValueError; the connection errors are not.
StoreOk == Ok(None)
ConnectionError ==
    Raise("ServerSelectionTimeoutError",
          "db0.internal:27017: [Errno 111] Connection refused")
EncodeError ==
    Raise("UnicodeEncodeError",
          "'utf-8' codec can't encode character: surrogates not allowed")
InsertOutcomes == {StoreOk, ConnectionError, EncodeError}
FindOutcomes == {StoreOk, ConnectionError}

\* isinstance(e, ValueError)
IsValueError(cls) == cls \in {"ValueError", "UnicodeEncodeError"}

\* An insert that replaces the document of the same request_id, if any.
insert_one_Upsert(st, doc) ==
    IF \E i \in 1..Len(st) : st[i]["request_id"] = doc["request_id"]
    THEN [i \in 1..Len(st) |->
             IF st[i]["request_id"] = doc["request_id"] THEN doc ELSE st[i]]
    ELSE Append(st, doc)

\* An insert that is acknowledged and keeps no document.
insert_one_Dropped(st, doc) == st

\* collection.insert_one(document), when it succeeds: the document is added
\* after those the collection holds.
insert_one(st, doc) == Append(st, doc)

\* Number of connection attempts of init_db.
max_retries == 3

-----------------------------------------------------------------------------
(* Requests, responses and the trace of a handler. *)

\* jsonify(...) with its status code.  The fields a response does not carry
\* are left empty.
Response(code, status, message) ==
    [code |-> code, status |-> status, message |-> message,
     event |-> NoKeys, events |-> <<>>, error |-> "", database |-> ""]

NoTrace ==
    [payload_read |-> FALSE,     \* request.get_json() was called
     normalizer |-> "",          \* the normalizer called, if any
     event_data |-> NoKeys,      \* the record the normalizer returned
     validated |-> FALSE,        \* validate_event_data accepted the record
     collection_calls |-> 0,     \* calls of insert_one, find or find_one
     inserted |-> FALSE,         \* insert_one succeeded
     store_error |-> "",         \* the text of the driver's error
     limit_asked |-> 0,          \* the bound given to .limit()
     init_attempts |-> 0,        \* connection attempts of init_db
     init_result |-> ""]         \* returned, raised or skipped

NoRequest ==
    [op |-> "", event_type |-> None, body |-> [kind |-> "", value |-> None],
     limit |-> None]

\* request.get_json(): the parsed body; a body that does not parse raises
\* BadRequest; a body whose mimetype is not JSON raises UnsupportedMediaType,
\* and under a Flask before 2.1 (legacy) gives None.
get_json(body, legacy) ==
    CASE body.kind = "json" -> Ok(body.value)
      [] body.kind = "malformed" -> Raise("BadRequest", "400 Bad Request")
      [] OTHER -> IF legacy THEN Ok(None)
                  ELSE Raise("UnsupportedMediaType", "415 Unsupported Media Type")

Outcome(r, st, t) == [resp |-> r, store |-> st, tr |-> t]

\* The except clauses of webhook_receiver: a ValueError is a client error
\* carrying its text, anything else a generic server error.
WebhookExcept(exc, msg, st, t) ==
    IF IsValueError(exc)
    THEN Outcome(Response(400, "error", msg), st, t)
    ELSE Outcome(Response(500, "error", "Internal server error"), st, t)

-----------------------------------------------------------------------------
(* routes.webhook_receiver *)

\* The last part of webhook_receiver: validate, insert, echo.
StoreEvent(event_data, coll, st, ins, t) ==
    IF ~Truthy(Dict(event_data))
    THEN Outcome(Response(500, "error", "Failed to process event"), st, t)
    ELSE LET v == validate_event_data(event_data) IN
    IF ~v.ok THEN WebhookExcept(v.exc, v.msg, st, t)
    ELSE LET t1 == [t EXCEPT !.validated = TRUE]
             c == get_events_collection(coll)
         IN
    IF ~c.ok THEN WebhookExcept(c.exc, c.msg, st, t1)
    ELSE LET t2 == [t1 EXCEPT !.collection_calls = @ + 1] IN
    IF ~ins.ok
    THEN WebhookExcept(ins.exc, ins.msg, st, [t2 EXCEPT !.store_error = ins.msg])
    ELSE LET inserted_id == ObjectId(Len(st) + 1)
             doc == ("_id" :> inserted_id) @@ event_data
             echo == ("_id" :> Str(ToString(inserted_id[2]))) @@ event_data
         IN Outcome([Response(201, "success", "Event processed and stored")
                        EXCEPT !.event = echo],
                    insert_one(st, doc),
                    [t2 EXCEPT !.inserted = TRUE])

tracked_actions == {"opened", "synchronize", "reopened", "edited"}

\* What webhook_receiver has done when it reaches "Store the event": it has
\* returned a response (done), or it holds the event_data to store.
Returned(r, t) == [done |-> TRUE, resp |-> r, tr |-> t]
ToStore(event_data, t) ==
    [done |-> FALSE, resp |-> Response(0, "", ""),
     tr |-> [t EXCEPT !.event_data = event_data]]

\* The except clauses, for an exception raised before the store is reached.
DispatchExcept(exc, msg, t) ==
    Returned(WebhookExcept(exc, msg, <<>>, t).resp, t)

\* The pull_request branch of webhook_receiver.
PullRequestBranch(payload, now, t) ==
    IF ~IsDict(payload)
    THEN DispatchExcept("AttributeError", AttributeError(payload, "get"), t)
    ELSE LET action == Get(payload, "action", Str(""))
             pull_request == Get(payload, "pull_request", EmptyDict)
         IN
    IF ~IsDict(pull_request)
    THEN DispatchExcept("AttributeError", AttributeError(pull_request, "get"), t)
    ELSE LET is_merged == Get(pull_request, "merged", Bool(FALSE)) IN
    IF (action = Str("closed") /\ Truthy(is_merged))
       \/ (IsStr(action) /\ action[2] \in tracked_actions)
    THEN LET p == parse_pull_request_event(payload, now)
             t1 == [t EXCEPT !.normalizer = "parse_pull_request_event"]
         IN IF ~p.ok THEN DispatchExcept(p.exc, p.msg, t1) ELSE ToStore(p.val, t1)
    ELSE Returned(Response(200, "skipped",
                           "Pull request action \"" \o PyStr(action) \o "\" not tracked"),
                  t)

\* webhook_receiver() up to "Store the event", for a request with header
\* X-GitHub-Event event_type and the given body.
WebhookDispatch(event_type, body, now, legacy) ==
    IF ~Truthy(event_type)
    THEN Returned(Response(400, "error", "Missing X-GitHub-Event header"), NoTrace)
    ELSE LET j == get_json(body, legacy)
             t == [NoTrace EXCEPT !.payload_read = TRUE]
         IN
    IF ~j.ok THEN DispatchExcept(j.exc, j.msg, t)
    ELSE LET payload == j.val IN
    IF ~Truthy(payload)
    THEN Returned(Response(400, "error", "Invalid or empty JSON payload"), t)
    ELSE IF event_type[2] = "push"
    THEN LET p == parse_push_event(payload, now)
             t1 == [t EXCEPT !.normalizer = "parse_push_event"]
         IN IF ~p.ok THEN DispatchExcept(p.exc, p.msg, t1) ELSE ToStore(p.val, t1)
    ELSE IF event_type[2] = "pull_request"
    THEN PullRequestBranch(payload, now, t)
    ELSE IF event_type[2] = "ping"
    THEN Returned(Response(200, "success", "Webhook configured successfully"), t)
    ELSE Returned(Response(200, "skipped",
                           "Event type \"" \o event_type[2] \o "\" not supported"),
                  t)

\* webhook_receiver(), from what its dispatch has done: the response, the
\* store and the trace.
webhook_receiver(d, ins, coll, st) ==
    IF d.done THEN Outcome(d.resp, st, d.tr)
    ELSE StoreEvent(d.tr.event_data, coll, st, ins, d.tr)

-----------------------------------------------------------------------------
(* routes.get_events *)

\* The default of the limit parameter and the two ends of its clamp.
DefaultLimit == 10
MinLimit == 1
MaxLimit == 100

\* int(text), on the texts of the model; any other text raises ValueError.
ParseInt(text) ==
    CASE text = "-5" -> Ok(-5)
      [] text = "0" -> Ok(0)
      [] text = "1" -> Ok(1)
      [] text = "2" -> Ok(2)
      [] text = "100" -> Ok(100)
      [] text = "101" -> Ok(101)
      [] text = "2000000000" -> Ok(2000000000)
      [] OTHER -> Raise("ValueError", "invalid literal for int() with base 10")

\* request.args.get('limit', 10, type=int): the default when the parameter
\* is absent or int() raises ValueError.
ArgsGetLimit(arg) ==
    IF arg = None THEN DefaultLimit
    ELSE LET n == ParseInt(arg[2]) IN IF n.ok THEN n.val ELSE DefaultLimit

Min(a, b) == IF a <= b THEN a ELSE b
Max(a, b) == IF a >= b THEN a ELSE b

\* A clamp without its lower end.
ClampLimit_NoFloor(limit) == Min(limit, MaxLimit)

\* min(max(1, limit), 100)
ClampLimit(limit) == Min(Max(MinLimit, limit), MaxLimit)

\* The projection {'_id': 0}: the document without its _id.
Project(doc) == [f \in DOMAIN doc \ {"_id"} |-> doc[f]]

\* .sort('_id', -1): the documents by descending _id.
RECURSIVE SortByIdDesc(_)
SortByIdDesc(docs) ==
    IF docs = {} THEN <<>>
    ELSE LET top == CHOOSE d \in docs : \A e \in docs : e["_id"][2] <= d["_id"][2]
         IN <<top>> \o SortByIdDesc(docs \ {top})

\* .limit(n): the first n of a sequence.
Limit(seq, n) == SubSeq(seq, 1, Min(n, Len(seq)))

\* A find that sorts by ascending _id.
Find_OldestFirst(st, limit) ==
    LET cut == Limit(st, limit)
    IN [i \in 1..Len(cut) |-> Project(cut[i])]

\* collection.find({}, {'_id': 0}).sort('_id', -1).limit(limit)
Find(st, limit) ==
    LET sorted == SortByIdDesc({st[i] : i \in 1..Len(st)})
        cut == Limit(sorted, limit)
    IN [i \in 1..Len(cut) |-> Project(cut[i])]

\* get_events(): the response and the trace of a query with the given limit
\* parameter; any exception is a generic server error.
get_events(arg, fnd, coll, st) ==
    LET limit == ClampLimit(ArgsGetLimit(arg))
        c == get_events_collection(coll)
        failed == Response(500, "error", "Failed to retrieve events")
    IN IF ~c.ok THEN Outcome(failed, st, NoTrace)
       ELSE LET t == [NoTrace EXCEPT !.collection_calls = 1, !.limit_asked = limit] IN
            IF ~fnd.ok
            THEN Outcome(failed, st, [t EXCEPT !.store_error = fnd.msg])
            ELSE Outcome([Response(200, "", "") EXCEPT !.events = Find(st, limit)],
                         st, t)

-----------------------------------------------------------------------------
(* routes.health_check *)

\* health_check(): find_one as a probe; an exception is reported with its text.
health_check(fnd, coll, st) ==
    LET c == get_events_collection(coll)
        unhealthy(msg) == [Response(503, "unhealthy", "") EXCEPT !.error = msg]
    IN IF ~c.ok THEN Outcome(unhealthy(c.msg), st, NoTrace)
       ELSE LET t == [NoTrace EXCEPT !.collection_calls = 1] IN
            IF ~fnd.ok
            THEN Outcome(unhealthy(fnd.msg), st, [t EXCEPT !.store_error = fnd.msg])
            ELSE Outcome([Response(200, "healthy", "") EXCEPT !.database = "connected"],
                         st, t)

-----------------------------------------------------------------------------
(* extensions.init_db *)

\* What one connection attempt does: it succeeds; or the ping raises a
\* connection error, after _mongo_client was assigned; or create_index
\* raises one, after _database and _events_collection were assigned too.
AttemptOutcomes == {"ok", "ping_failed", "create_index_failed"}

HandlesAfter(outcome, h) ==
    IF outcome = "ping_failed"
    THEN [h EXCEPT !.client = "client"]
    ELSE [client |-> "client", db |-> "db", coll |-> "coll"]

\* The retry loop of init_db from attempt i on, with the outcome of each
\* attempt: the handles it leaves, the attempts made, and how it ends.
RECURSIVE InitLoop(_, _, _)
InitLoop(i, outs, h) ==
    LET h1 == HandlesAfter(outs[i], h) IN
    IF outs[i] = "ok" THEN [h |-> h1, attempts |-> i, result |-> "returned"]
    ELSE IF i < max_retries THEN InitLoop(i + 1, outs, h1)
    ELSE [h |-> h1, attempts |-> i, result |-> "raised"]

\* init_db(app): skipped when _mongo_client is set.
init_db(outs, h) ==
    IF h.client # "None"
    THEN [h |-> h, attempts |-> 0, result |-> "skipped"]
    ELSE InitLoop(1, outs, h)

-----------------------------------------------------------------------------
(* The requests of the model. *)

HeadCommit == Dict([id |-> Str("abc123"), timestamp |-> Str("2024-01-15T10:00:00Z")])
Pusher == Dict([name |-> Str("alice")])

PushPayloads ==
    { \* the push of a commit
      Dict([head_commit |-> HeadCommit, pusher |-> Pusher,
            ref |-> Str("refs/heads/main")]),
      \* no head_commit, an "after" hash
      Dict([after |-> Str("def456"), pusher |-> Pusher, ref |-> Str("main")]),
      \* a head_commit without id, an "after" hash
      Dict([head_commit |-> EmptyDict, after |-> Str("def456"),
            pusher |-> Pusher, ref |-> Str("main")]),
      \* neither head_commit nor "after"
      Dict([pusher |-> Pusher, ref |-> Str("refs/heads/main")]),
      \* an id that is null
      Dict([head_commit |-> Dict([id |-> None]), after |-> Str("def456"),
            pusher |-> Pusher, ref |-> Str("main")]),
      \* an id that is the empty string
      Dict([head_commit |-> Dict([id |-> Str("")]), after |-> Str("def456"),
            pusher |-> Pusher, ref |-> Str("main")]),
      \* head_commit null (the push that deletes a branch)
      Dict([head_commit |-> None, pusher |-> Pusher, ref |-> Str("main")]),
      \* pusher and ref of the wrong type
      Dict([head_commit |-> HeadCommit, pusher |-> Str("alice")]),
      Dict([head_commit |-> HeadCommit, pusher |-> Pusher, ref |-> PyInt(7)]),
      \* timestamps: with an offset, unparseable, not a string, absent
      Dict([head_commit |-> Dict([id |-> Str("abc123"),
                                  timestamp |-> Str("2024-01-15T15:30:00+05:30")]),
            pusher |-> Pusher, ref |-> Str("main")]),
      Dict([head_commit |-> Dict([id |-> Str("abc123"), timestamp |-> Str("yesterday")]),
            pusher |-> Pusher, ref |-> Str("main")]),
      Dict([head_commit |-> Dict([id |-> Str("abc123"), timestamp |-> PyInt(1705312800)]),
            pusher |-> Pusher, ref |-> Str("main")]),
      Dict([head_commit |-> Dict([id |-> Str("abc123")]),
            pusher |-> Pusher, ref |-> Str("main")]) }

\* A pull_request object with the given merged flag and instants; a field
\* given as "absent" is left out.
PullRequestObject(merged, merged_at, updated_at, created_at) ==
    LET base == [user |-> Dict([login |-> Str("bob")]),
                 head |-> Dict([ref |-> Str("feature")]),
                 base |-> Dict([ref |-> Str("main")])]
        with(f, key, val) == IF val = "absent" THEN f ELSE (key :> Str(val)) @@ f
        flag == IF merged = "absent" THEN base
                ELSE ("merged" :> Bool(merged = "true")) @@ base
    IN Dict(with(with(with(flag, "merged_at", merged_at),
                      "updated_at", updated_at), "created_at", created_at))

Unmerged == PullRequestObject("false", "absent", "absent", "2024-01-15T10:00:00Z")
MergedAt ==
    PullRequestObject("true", "2024-01-16T10:00:00Z", "2024-01-15T10:00:00Z",
                      "2024-01-15T10:00:00Z")

PullRequestPayload(action, pull_request) ==
    Dict([number |-> PyInt(42), action |-> Str(action), pull_request |-> pull_request])

PullRequestPayloads ==
    { PullRequestPayload("opened", Unmerged),
      PullRequestPayload("opened",
          PullRequestObject("absent", "absent", "2024-01-15T15:30:00+05:30", "absent")),
      \* a merged pull request that is edited, and one that is closed
      PullRequestPayload("edited", MergedAt),
      PullRequestPayload("closed", MergedAt),
      \* merged, with merged_at absent and unparseable
      PullRequestPayload("closed",
          PullRequestObject("true", "absent", "2024-01-15T10:00:00Z",
                            "2024-01-15T10:00:00Z")),
      PullRequestPayload("closed",
          PullRequestObject("true", "not a date", "2024-01-15T10:00:00Z",
                            "2024-01-15T10:00:00Z")),
      \* an updated_at that is no string
      PullRequestPayload("synchronize",
          Dict(("updated_at" :> PyInt(1705312800)) @@ Unmerged[2])),
      \* closed without a merge: merged false, merged absent
      PullRequestPayload("closed", Unmerged),
      PullRequestPayload("closed",
          PullRequestObject("absent", "absent", "absent", "2024-01-15T10:00:00Z")),
      \* an action that is not tracked, and no action
      PullRequestPayload("labeled", Unmerged),
      Dict([number |-> PyInt(42), pull_request |-> Unmerged]),
      \* pull_request of the wrong type
      Dict([number |-> PyInt(42), action |-> Str("opened"), pull_request |-> None]),
      Dict([number |-> PyInt(42), action |-> Str("labeled"), pull_request |-> Str("x")]),
      \* user of the wrong type, and a login that is null
      PullRequestPayload("opened", Dict([user |-> Str("bob")])),
      PullRequestPayload("opened", Dict([user |-> Dict([login |-> None])])) }

\* Payloads that are no JSON object, or an empty one.
OtherPayloads == {EmptyDict, None, List(<<PyInt(1)>>)}
PingPayload == Dict([zen |-> Str("Keep it simple")])

JsonBody(j) == [kind |-> "json", value |-> j]
MalformedBody == [kind |-> "malformed", value |-> None]
NotJsonBody == [kind |-> "not_json_mimetype", value |-> None]

WebhookRequest(event_type, body) ==
    [op |-> "webhook", event_type |-> event_type, body |-> body, limit |-> None]

WebhookRequests ==
    { WebhookRequest(Str("push"), JsonBody(j)) : j \in PushPayloads \cup OtherPayloads }
    \cup { WebhookRequest(Str("pull_request"), JsonBody(j)) :
               j \in PullRequestPayloads \cup OtherPayloads }
    \cup { WebhookRequest(Str(e), JsonBody(j)) :
               e \in {"ping", "issues"}, j \in {PingPayload, EmptyDict} }
    \cup { WebhookRequest(e, b) :
               e \in {Str("push"), Str("ping")}, b \in {MalformedBody, NotJsonBody} }
    \cup { WebhookRequest(e, b) :
               e \in {None, Str("")}, b \in {JsonBody(PingPayload), MalformedBody} }

\* WebhookDispatch of every request of the model.
DispatchOf ==
    [r \in WebhookRequests |->
        [legacy \in BOOLEAN |->
            [now \in NowInstants |-> WebhookDispatch(r.event_type, r.body, now, legacy)]]]

LimitArgs ==
    {None} \cup { Str(t) : t \in {"-5", "0", "1", "2", "100", "101",
                                  "2000000000", "abc"} }

QueryRequest(arg) ==
    [op |-> "events", event_type |-> None, body |-> NoRequest.body, limit |-> arg]
HealthRequest == [NoRequest EXCEPT !.op = "health"]
InitRequest == [NoRequest EXCEPT !.op = "init_db"]

-----------------------------------------------------------------------------
(* The state machine. *)

Workers == 1..NumWorkers

\* A worker that serves no request.
Idle ==
    [pc |-> "idle", req |-> NoRequest, resp |-> Response(0, "", ""),
     tr |-> NoTrace, slot |-> 0]

\* No 201 response was given.
NoLedger == [echoed |-> <<>>]

Init ==
    /\ mongo_client = "None"
    /\ database = "None"
    /\ events_collection = "None"
    /\ store = <<>>
    /\ req = NoRequest
    /\ resp = Response(0, "", "")
    /\ tr = NoTrace
    /\ inflight = [w \in Workers |-> Idle]
    /\ ledger = NoLedger

handles == <<mongo_client, database, events_collection>>
threads == <<inflight, ledger>>

\* A call of init_db, each of its attempts with an outcome.
InitDb ==
    \E outs \in IF mongo_client = "None" THEN [1..max_retries -> AttemptOutcomes]
                ELSE {[i \in 1..max_retries |-> "ok"]} :
        LET out == init_db(outs, [client |-> mongo_client, db |-> database,
                                  coll |-> events_collection])
        IN /\ mongo_client' = out.h.client
           /\ database' = out.h.db
           /\ events_collection' = out.h.coll
           /\ req' = InitRequest
           /\ resp' = Response(0, "", "")
           /\ tr' = [NoTrace EXCEPT !.init_attempts = out.attempts,
                                    !.init_result = out.result]
           /\ UNCHANGED <<store, threads>>

\* A POST /webhook/receiver.  The driver is given an outcome when the
\* handler calls it.  The model serves ingestion requests while the store
\* holds fewer than MaxStore documents.
WebhookReceiver ==
    /\ Len(store) < MaxStore
    /\ \E r \in WebhookRequests, now \in NowInstants :
         \E legacy \in IF r.body.kind = "not_json_mimetype" THEN BOOLEAN ELSE {FALSE} :
           LET d == DispatchOf[r][legacy][now] IN
           \E ins \in IF d.done \/ events_collection = "None" THEN {StoreOk}
                      ELSE InsertOutcomes :
             LET out == webhook_receiver(d, ins, events_collection, store)
             IN /\ req' = r
                /\ resp' = out.resp
                /\ store' = out.store
                /\ tr' = out.tr
                /\ UNCHANGED <<handles, threads>>

\* A GET /api/events.
GetEvents ==
    \E arg \in LimitArgs, fnd \in FindOutcomes :
        LET out == get_events(arg, fnd, events_collection, store)
        IN /\ req' = QueryRequest(arg)
           /\ resp' = out.resp
           /\ store' = out.store
           /\ tr' = out.tr
           /\ UNCHANGED <<handles, threads>>

\* A GET /health.
HealthCheck ==
    \E fnd \in FindOutcomes :
        LET out == health_check(fnd, events_collection, store)
        IN /\ req' = HealthRequest
           /\ resp' = out.resp
           /\ store' = out.store
           /\ tr' = out.tr
           /\ UNCHANGED <<handles, threads>>

Next == InitDb \/ HealthCheck \/ WebhookReceiver \/ GetEvents

Spec == Init /\ [][Next]_vars

-----------------------------------------------------------------------------
(* Ingestion requests served at the same time.  A worker thread runs       *)
(* webhook_receiver with its own locals (payload, event_data, result); the  *)
(* threads share the handles and the collection.  What a thread does before *)
(* insert_one reads no shared state but the handles, insert_one is one step *)
(* of the store, and the response is given in a later step.                 *)

\* The ingestion requests of the threads: pushes with an "after" hash (two
\* of which give equal records, one a record the validator rejects), a ping
\* and a pull-request action that is not tracked.
ConcRequests ==
    { r \in WebhookRequests :
        /\ r.body.kind = "json"
        /\ \/ /\ r.event_type = Str("push")
              /\ IsDict(r.body.value)
              /\ "after" \in DOMAIN r.body.value[2]
           \/ r = WebhookRequest(Str("ping"), JsonBody(PingPayload))
           \/ r = WebhookRequest(Str("pull_request"),
                                 JsonBody(PullRequestPayload("labeled", Unmerged))) }

\* webhook_receiver gets as far as its call of insert_one.
ReachesInsert(d, coll) ==
    /\ ~d.done
    /\ Truthy(Dict(d.tr.event_data))
    /\ validate_event_data(d.tr.event_data).ok
    /\ get_events_collection(coll).ok

\* The application serves requests after create_app, whose init_db returned.
ConcInit ==
    /\ mongo_client = "client"
    /\ database = "db"
    /\ events_collection = "coll"
    /\ store = <<>>
    /\ req = NoRequest
    /\ resp = Response(0, "", "")
    /\ tr = NoTrace
    /\ inflight = [w \in Workers |-> Idle]
    /\ ledger = NoLedger

\* The ledger after a response: a 201 is entered with the place of the
\* document its request inserted.
Entered(r, slot) ==
    IF r.code = 201 THEN [ledger EXCEPT !.echoed = Append(@, slot)] ELSE ledger

\* A thread takes a request and runs the handler up to insert_one; a handler
\* that returns before it gives its response.
Receive(w) ==
    /\ inflight[w].pc = "idle"
    /\ Len(store) + Cardinality({v \in Workers : inflight[v].pc # "idle"}) < MaxStore
    /\ \E r \in ConcRequests, now \in NowInstants :
         LET d == DispatchOf[r][FALSE][now] IN
         IF ReachesInsert(d, events_collection)
         THEN /\ inflight' = [inflight EXCEPT ![w] =
                                 [Idle EXCEPT !.pc = "insert", !.req = r, !.tr = d.tr]]
              /\ UNCHANGED <<req, resp, tr, ledger>>
         ELSE LET out == webhook_receiver(d, StoreOk, events_collection, store)
              IN /\ req' = r
                 /\ resp' = out.resp
                 /\ tr' = out.tr
                 /\ ledger' = Entered(out.resp, 0)
                 /\ UNCHANGED inflight
    /\ UNCHANGED <<handles, store>>

\* The thread's call of insert_one and what the handler does with its
\* result: it holds the 201 response with its own event_data and the
\* inserted id, or an except clause gives the response of the failure.
Insert(w) ==
    /\ inflight[w].pc = "insert"
    /\ \E ins \in InsertOutcomes :
         LET f == inflight[w]
             out == StoreEvent(f.tr.event_data, events_collection, store, ins, f.tr)
         IN /\ store' = out.store
            /\ IF out.tr.inserted
               THEN /\ inflight' = [inflight EXCEPT ![w] =
                                       [f EXCEPT !.pc = "respond", !.resp = out.resp,
                                                 !.tr = out.tr, !.slot = Len(store) + 1]]
                    /\ UNCHANGED <<req, resp, tr, ledger>>
               ELSE /\ req' = f.req
                    /\ resp' = out.resp
                    /\ tr' = out.tr
                    /\ ledger' = Entered(out.resp, 0)
                    /\ inflight' = [inflight EXCEPT ![w] = Idle]
    /\ UNCHANGED handles

\* The thread returns the response it holds.
Respond(w) ==
    /\ inflight[w].pc = "respond"
    /\ req' = inflight[w].req
    /\ resp' = inflight[w].resp
    /\ tr' = inflight[w].tr
    /\ ledger' = Entered(inflight[w].resp, inflight[w].slot)
    /\ inflight' = [inflight EXCEPT ![w] = Idle]
    /\ UNCHANGED <<handles, store>>

ConcNext == \E w \in Workers : Receive(w) \/ Insert(w) \/ Respond(w)

ConcSpec == ConcInit /\ [][ConcNext]_vars

-----------------------------------------------------------------------------
(* Properties.  The helpers below state what the specification says of a    *)
(* request or a record, without use of the handlers' own definitions.       *)

CanonicalFields ==
    {"request_id", "author", "action", "from_branch", "to_branch", "timestamp"}

ActionTags == {Str("PUSH"), Str("PULL_REQUEST"), Str("MERGE")}

\* A record with the six canonical fields present and non-null and a
\* recognized action tag.
IsCanonical(rec) ==
    /\ \A f \in CanonicalFields : f \in DOMAIN rec /\ rec[f] # None
    /\ rec["action"] \in ActionTags

IsWebhook == req.op = "webhook"
HasKind(kind) == IsWebhook /\ req.event_type = Str(kind)
HasJson == req.body.kind = "json"
Payload == req.body.value
LastStored == store[Len(store)]

\* A field of a dict, or None when the value is no dict or lacks the field.
Field(j, key) == IF IsDict(j) /\ key \in DOMAIN j[2] THEN j[2][key] ELSE None

\* C1: every record the store holds has the six canonical fields present and
\* non-null and an action among PUSH, PULL_REQUEST, MERGE; and a request
\* inserts only a record that validate_event_data has accepted.
C1_StoredRecordsCanonical ==
    /\ \A i \in 1..Len(store) : IsCanonical(store[i])
    /\ tr.inserted => (tr.validated /\ IsCanonical(tr.event_data))

\* C1 witness: a request stored a validated record, and the store holds two
\* records of different actions.
C1_Witness ==
    /\ tr.inserted
    /\ Len(store) = 2
    /\ store[1]["action"] # store[2]["action"]

\* C2: a ping with a JSON object payload, the empty object included, is
\* answered 200 "success" without a normalizer and without a store call.
C2_PingAcknowledged ==
    (HasKind("ping") /\ HasJson /\ IsDict(Payload))
        => /\ resp.code = 200
           /\ resp.status = "success"
           /\ tr.normalizer = ""
           /\ tr.collection_calls = 0

\* C3: a request without the event-kind signal, or without a present and
\* parseable JSON payload, is answered 400, with no normalizer called and no
\* store call; the signal is checked before the payload is read.
C3_MissingInputIsClientError ==
    (IsWebhook /\ (~Truthy(req.event_type) \/ ~HasJson))
        => /\ resp.code = 400
           /\ tr.normalizer = ""
           /\ tr.collection_calls = 0
           /\ (~Truthy(req.event_type) => ~tr.payload_read)

\* The payload of a push or pull_request request is structurally malformed:
\* it is no mapping, or a sub-structure is present and is no mapping.
Malformed(kind, payload) ==
    \/ ~IsDict(payload)
    \/ /\ kind = "push"
       /\ \E key \in {"head_commit", "pusher"} :
              key \in DOMAIN payload[2] /\ ~IsDict(payload[2][key])
    \/ /\ kind = "pull_request"
       /\ "pull_request" \in DOMAIN payload[2]
       /\ \/ ~IsDict(payload[2]["pull_request"])
          \/ \E key \in {"user", "head", "base"} :
                 /\ key \in DOMAIN payload[2]["pull_request"][2]
                 /\ ~IsDict(payload[2]["pull_request"][2][key])

\* C4: a push or pull_request request with a structurally malformed payload
\* is answered 400 with a message, never 500, and stores nothing.
C4_MalformedIsClientError ==
    \A kind \in {"push", "pull_request"} :
        (HasKind(kind) /\ HasJson /\ Truthy(Payload) /\ Malformed(kind, Payload))
            => /\ resp.code = 400
               /\ resp.message # ""
               /\ ~tr.inserted

\* C5: when the driver fails during a request, the response is a server
\* error with a generic message and holds none of the error's text.
C5_StoreFailureIsGeneric ==
    tr.store_error # ""
        => /\ resp.code >= 500
           /\ resp.message # tr.store_error
           /\ resp.error # tr.store_error

\* C6: a pull_request request with action opened, synchronize, reopened or
\* edited, whatever its merged flag, that stores a record stores (and
\* echoes) a PULL_REQUEST.
C6_TrackedActionIsPullRequest ==
    (HasKind("pull_request") /\ HasJson
        /\ Field(Payload, "action") \in {Str(a) : a \in tracked_actions}
        /\ tr.inserted)
        => /\ LastStored["action"] = Str("PULL_REQUEST")
           /\ resp.event["action"] = Str("PULL_REQUEST")

\* The formatted instant the specification gives a merge: that of merged_at,
\* or the current instant when merged_at is absent or does not parse.
MergeInstant(pull_request, now) ==
    LET merged_at == Field(pull_request, "merged_at") IN
    IF merged_at = Str("2024-01-16T10:00:00Z")
    THEN "16 January 2024 - 10:00 AM UTC"
    ELSE StrfTime(now)

\* C7: a pull-request payload with merged true is normalized to a MERGE
\* whose timestamp is that of merged_at, or the current instant, not that of
\* updated_at or created_at; and a request dispatched as a merge (closed and
\* merged) stores a MERGE.
C7_MergedIsMerge ==
    LET pull_request == Field(Payload, "pull_request") IN
    (HasKind("pull_request") /\ HasJson
        /\ Field(pull_request, "merged") = Bool(TRUE)
        /\ tr.event_data # NoKeys)
        => /\ tr.event_data["action"] = Str("MERGE")
           /\ \E now \in NowInstants :
                  tr.event_data["timestamp"] = Str(MergeInstant(pull_request, now))
           /\ (Field(Payload, "action") = Str("closed") /\ tr.inserted)
                  => /\ LastStored["action"] = Str("MERGE")
                     /\ resp.event["action"] = Str("MERGE")

\* C7 witness: a closed and merged pull request without merged_at was stored.
C7_Witness ==
    /\ HasKind("pull_request") /\ HasJson
    /\ Field(Payload, "action") = Str("closed")
    /\ Field(Field(Payload, "pull_request"), "merged") = Bool(TRUE)
    /\ Field(Field(Payload, "pull_request"), "merged_at") = None
    /\ tr.inserted
    /\ resp.code = 201

\* The action of a pull_request payload is not tracked: it is none of the
\* four tracked actions, and it is not "closed" with merged true.
Untracked(payload) ==
    LET action == IF "action" \in DOMAIN payload[2] THEN payload[2]["action"] ELSE Str("")
        merged == Field(Field(payload, "pull_request"), "merged")
    IN /\ action \notin {Str(a) : a \in tracked_actions}
       /\ ~(action = Str("closed") /\ merged = Bool(TRUE))

\* C8: a request with a non-empty payload of a kind other than push,
\* pull_request and ping, and a pull_request request whose action is not
\* tracked, is answered 200 "skipped" and stores nothing.
C8_UntrackedIsSkipped ==
    (IsWebhook /\ HasJson /\ Truthy(req.event_type) /\ Truthy(Payload)
        /\ \/ req.event_type[2] \notin {"push", "pull_request", "ping"}
           \/ req.event_type[2] = "pull_request" /\ IsDict(Payload) /\ Untracked(Payload))
        => /\ resp.code = 200
           /\ resp.status = "skipped"
           /\ tr.collection_calls = 0

\* C9: a query answered 200 with effective bound L over a store of n records
\* returns the min(L, n) records inserted last, the last first, each with
\* the six canonical fields and no other.
C9_QueryNewestFirst ==
    (req.op = "events" /\ resp.code = 200)
        => LET n == Len(store)
               L == tr.limit_asked
               m == IF L <= n THEN L ELSE n
           IN /\ Len(resp.events) = m
              /\ \A i \in 1..m :
                     /\ DOMAIN resp.events[i] = CanonicalFields
                     /\ \A f \in CanonicalFields :
                            resp.events[i][f] = store[n + 1 - i][f]

\* C9 witness: a query returned two different records.
C9_Witness ==
    /\ req.op = "events" /\ resp.code = 200
    /\ Len(resp.events) = 2
    /\ resp.events[1] # resp.events[2]

\* The bound the specification gives a limit parameter.
EffectiveBound(arg) ==
    IF arg = None \/ ~ParseInt(arg[2]).ok THEN 10
    ELSE LET limit == ParseInt(arg[2]).val IN
         IF limit < 1 THEN 1 ELSE IF limit > 100 THEN 100 ELSE limit

\* C10: the bound the query gives the store is min(max(1, limit), 100) for
\* an integer limit and 10 for an absent or non-integer one; it is never
\* below 1 nor above 100.
C10_LimitClamped ==
    (req.op = "events" /\ tr.collection_calls > 0)
        => /\ tr.limit_asked = EffectiveBound(req.limit)
           /\ tr.limit_asked >= 1
           /\ tr.limit_asked <= 100

\* C10 witness: a query with limit 0 asked the store for one record.
C10_Witness ==
    /\ req.op = "events" /\ req.limit = Str("0")
    /\ tr.collection_calls > 0
    /\ tr.limit_asked = 1

\* C11: the store is append-only: in every step the documents the store
\* held stay unchanged and in place, so the store before the step is a
\* prefix of the store after it; a query, a health check and init_db leave
\* the store unchanged.
C11_AppendOnly ==
    [][/\ Len(store') >= Len(store)
       /\ SubSeq(store', 1, Len(store)) = store
       /\ req'.op \in {"events", "health", "init_db"} => store' = store]_vars

\* C11 witness: an ingestion request answered 201 added its document after
\* the one the store held, which is still the first.
C11_Witness ==
    /\ IsWebhook /\ resp.code = 201
    /\ Len(store) = 2
    /\ store[1]["_id"] = ObjectId(1)
    /\ store[2]["_id"] = ObjectId(2)

\* The request_id the specification gives a push payload: the head commit's
\* id when it has one, else the payload's "after" hash when it has one, else
\* the sentinel; a null or empty value is one the payload does not have.
SpecRequestId(payload) ==
    LET has(v) == v # None /\ v # Str("")
        id == Field(Field(payload, "head_commit"), "id")
        after == Field(payload, "after")
    IN IF has(id) THEN id ELSE IF has(after) THEN after ELSE Str("unknown")

\* C12: the record parse_push_event returns for a push payload has a
\* request_id that is neither null nor empty: the head commit's id, else the
\* "after" hash, else "unknown", also when head_commit is absent, has no id,
\* or has a null id.
C12_PushRequestIdNeverEmpty ==
    (HasKind("push") /\ HasJson /\ tr.normalizer = "parse_push_event"
        /\ tr.event_data # NoKeys)
        => /\ tr.event_data["request_id"] \notin {None, Str("")}
           /\ tr.event_data["request_id"] = SpecRequestId(Payload)

\* A field of a dict is a string that is not empty.
HasStr(j, key) == IsStr(Field(j, key)) /\ Field(j, key) # Str("")

\* The payload of a push or of a tracked pull request is well-formed apart
\* from its timestamp fields, whatever these hold.
OtherwiseWellFormed(kind, payload) ==
    /\ IsDict(payload)
    /\ kind = "push" =>
           /\ HasStr(Field(payload, "head_commit"), "id")
           /\ HasStr(Field(payload, "pusher"), "name")
           /\ IsStr(Field(payload, "ref"))
    /\ kind = "pull_request" =>
           LET pull_request == Field(payload, "pull_request") IN
           /\ Field(payload, "number") # None
           /\ \/ Field(payload, "action") \in {Str(a) : a \in tracked_actions}
              \/ /\ Field(payload, "action") = Str("closed")
                 /\ Field(pull_request, "merged") = Bool(TRUE)
           /\ HasStr(Field(pull_request, "user"), "login")
           /\ HasStr(Field(pull_request, "head"), "ref")
           /\ HasStr(Field(pull_request, "base"), "ref")

\* The timestamp field a record is formatted from.
SourceTimestamp(kind, payload) ==
    IF kind = "push" THEN Field(Field(payload, "head_commit"), "timestamp")
    ELSE LET pull_request == Field(payload, "pull_request") IN
         IF Field(pull_request, "merged") = Bool(TRUE)
         THEN Field(pull_request, "merged_at")
         ELSE IF Field(pull_request, "updated_at") # None
         THEN Field(pull_request, "updated_at")
         ELSE Field(pull_request, "created_at")

\* A string of the form "DD Month YYYY - HH:MM AM/PM UTC".
FormattedInstant(j) ==
    j \in {Str("15 January 2024 - 10:00 AM UTC"),
           Str("16 January 2024 - 10:00 AM UTC"),
           Str("30 January 2026 - 09:25 PM UTC")}

\* C13: for a push or tracked pull-request request whose payload is
\* well-formed apart from its timestamp, whether the source timestamp is
\* absent, a valid ISO-8601 string, an unparseable string or no string, the
\* normalizer returns a record with a formatted timestamp, the validator
\* accepts it, and unless the store is unavailable or its insert fails the
\* record is stored and the request answered 201.
C13_BadTimestampNeverBlocks ==
    \A kind \in {"push", "pull_request"} :
        (HasKind(kind) /\ HasJson /\ OtherwiseWellFormed(kind, Payload))
            => /\ tr.event_data # NoKeys
               /\ tr.validated
               /\ FormattedInstant(tr.event_data["timestamp"])
               /\ (events_collection # "None" /\ tr.store_error = "")
                      => /\ resp.code = 201
                         /\ tr.inserted
                         /\ LastStored["timestamp"] = tr.event_data["timestamp"]

\* C13 witness: a push whose timestamp is no string was stored and answered
\* 201, with the current instant as its timestamp.
C13_Witness ==
    /\ HasKind("push") /\ HasJson /\ OtherwiseWellFormed("push", Payload)
    /\ SourceTimestamp("push", Payload)[1] = "int"
    /\ resp.code = 201
    /\ LastStored["timestamp"] = Str("30 January 2026 - 09:25 PM UTC")

\* C14: an ingestion request calls insert_one at most once and adds at most
\* one document; when insert_one fails the request is answered 500 at once
\* and the store is left as it was.
C14_InsertAtMostOnce ==
    [][req'.op = "webhook"
          => /\ tr'.collection_calls <= 1
             /\ Len(store') <= Len(store) + 1
             /\ tr'.store_error # ""
                    => /\ resp'.code = 500
                       /\ ~tr'.inserted
                       /\ store' = store]_vars

\* The threads that have inserted a document and not yet answered.
Unanswered == {w \in Workers : inflight[w].pc = "respond"}

\* The response is the 201 that echoes the document at place k of the store.
Echoes(r, k) ==
    /\ r.code = 201
    /\ k \in 1..Len(store)
    /\ DOMAIN r.event = DOMAIN store[k]
    /\ \A f \in CanonicalFields : r.event[f] = store[k][f]
    /\ r.event["_id"] = Str(ToString(store[k]["_id"][2]))

\* What C15 says of each request: a request is answered 201 exactly when it
\* inserted one document; a 201 echoes the document its own request
\* inserted, and no two 201 responses are for the same document; a thread
\* that has inserted holds the 201 of its document; and no response is the
\* fallback "Failed to process event".
OneRecordPer201 ==
    /\ resp.message # "Failed to process event"
    /\ IsWebhook => (resp.code = 201 <=> tr.inserted)
    /\ (IsWebhook /\ resp.code = 201)
           => Echoes(resp, ledger.echoed[Len(ledger.echoed)])
    /\ \A i, j \in 1..Len(ledger.echoed) :
           i # j => ledger.echoed[i] # ledger.echoed[j]
    /\ \A w \in Unanswered : Echoes(inflight[w].resp, inflight[w].slot)
    /\ \A v, w \in Unanswered : v # w => inflight[v].slot # inflight[w].slot

\* C15, as stated: in every interleaving of ingestion requests the number
\* of stored documents always equals the number of 201 responses given so
\* far, a request is answered 201 exactly when it inserted one document,
\* a 201 echoes the document of its own request, and the fallback response
\* is never given.
C15_StoredEquals201 ==
    /\ OneRecordPer201
    /\ Len(store) = Len(ledger.echoed)

\* C15, amended: as C15, but the number of stored documents equals the
\* number of 201 responses given so far plus the number of requests that
\* have inserted their document and are not yet answered.
C15_StoredEquals201AndUnanswered ==
    /\ OneRecordPer201
    /\ Len(store) = Len(ledger.echoed) + Cardinality(Unanswered)

\* C15 witness: two requests inserted one after the other, the second was
\* answered 201 first with its own document, and the first is not yet
\* answered.
C15_Witness ==
    /\ IsWebhook /\ resp.code = 201
    /\ ledger.echoed = <<2>>
    /\ \E w \in Unanswered : inflight[w].slot = 1
    /\ Project(store[1]) = Project(store[2])

\* C16: a call of init_db makes at most three connection attempts, returns
\* on the first that succeeds and raises after the third failure; and
\* whenever a call returns without raising, also a call made after an
\* earlier call failed all its attempts, get_events_collection and get_db
\* return a handle.
C16_InitReturnsInitialized ==
    req.op = "init_db"
        => /\ tr.init_attempts <= 3
           /\ tr.init_result = "raised" => tr.init_attempts = 3
           /\ tr.init_result # "raised"
                  => /\ get_events_collection(events_collection).ok
                     /\ get_db(database).ok

====
